---- MODULE Spec2Model ----
(***************************************************************************)
(* Model of streamlit/pages/App_Pasteurization.py: a Streamlit page that   *)
(* opens a streaming HTTP GET on http://{ip}:{port}/stream, decodes the    *)
(* `data:` lines of the event stream with stream_data, and keeps the last  *)
(* MAX_POINTS decoded samples in st.session_state.data, redrawing after    *)
(* every sample.                                                           *)
(*                                                                         *)
(* A transport line is a sequence of byte chunks (tokens); the text of the *)
(* line is the concatenation of its chunks.  The window sizes of the       *)
(* slider (100..1000) are scaled down to 1..MaxWin; the slider never gives *)
(* 0, so df.iloc[-MAX_POINTS:] always cuts.  The length of the sleep is    *)
(* not modelled, and get_stream is left out: the script never calls it.    *)
(* Samples are taken to be plottable, so the plotting does not raise.      *)
(***************************************************************************)
EXTENDS Naturals, Sequences, FiniteSets, TLC

(* ------------------------------ bounds --------------------------------- *)
\* lines the transport delivers in one session (all runs together)
MaxLines == 3
\* script runs in one session (the first run and the re-runs)
MaxRuns == 2
\* largest value of the "Number of samples to show" slider, scaled down
MaxWin == 2

(* --------------------------- byte chunks ------------------------------- *)
\* b"data:", the stream-event marker tested by startswith
Marker == "data:"
\* b" "
Space == " "
\* two well-formed JSON objects
Obj1 == "{\"timestamp\":1,\"T\":50}"
Obj2 == "{\"timestamp\":2,\"T\":52}"
\* a double quote, delimiting a JSON string
Quote == "\""
\* text that is no JSON
Garbage == "{not json"
\* the byte 0xFF, which is no UTF-8
BadByte == "\\xff"

PayloadTokens == {Obj1, Obj2, Garbage, BadByte}

\* what may precede the payload: nothing, the marker, the marker and a space
Prefixes == {<<>>, <<Marker>>, <<Marker, Space>>}

\* the JSON string "data: ", whose text holds the marker and a space
QuotedMarker == <<Quote, Marker, Space, Quote>>

\* what may follow the prefix: nothing, one chunk, or the quoted marker
Payloads == {<<>>} \cup {<<t>> : t \in PayloadTokens} \cup {QuotedMarker}

\* the lines r.iter_lines() may deliver
TransportLines == {p \o b : p \in Prefixes, b \in Payloads}

(* --------------------------- configuration ----------------------------- *)
Hosts == {"127.0.0.1", "10.0.0.2"}
Ports == {"8000", "9000"}
default_ip == "127.0.0.1"
default_port == "8000"
PointChoices == 1..MaxWin

\* f"http://{ip}:{port}/stream"
MkUrl(h, p) == <<"http://", h, ":", p, "/stream">>

(* ----------------------------- decoder --------------------------------- *)
\* mutant: the startswith test left out
IsDataLine_AnyLine(l) == Len(l) > 0

\* line and line.startswith(b"data:")
IsDataLine(l) == Len(l) > 0 /\ l[1] = Marker

\* line.replace(b"data: ", b""): every occurrence is removed, left to right
RECURSIVE Replace(_)
Replace(l) ==
  IF Len(l) < 2 THEN l
  ELSE IF l[1] = Marker /\ l[2] = Space THEN Replace(SubSeq(l, 3, Len(l)))
  ELSE <<l[1]>> \o Replace(Tail(l))

\* .decode("utf-8") raises UnicodeDecodeError on a byte that is no UTF-8
Utf8Ok(p) == \A i \in 1..Len(p) : p[i] # BadByte

RECURSIVE LStrip(_)
LStrip(p) == IF Len(p) > 0 /\ p[1] = Space THEN LStrip(Tail(p)) ELSE p

RECURSIVE RStrip(_)
RStrip(p) ==
  IF Len(p) > 0 /\ p[Len(p)] = Space THEN RStrip(SubSeq(p, 1, Len(p) - 1)) ELSE p

JsonError == [ok |-> FALSE, value |-> [type |-> "none"]]

\* the chunks that may stand inside a JSON string: their text has no double
\* quote, no backslash and no control character (Obj1 and Obj2 hold quotes, so
\* a string that reaches one of them ends at its first quote: "Extra data")
StringChunks == {Marker, Space, Garbage}

\* json.loads on decoded text: one JSON value, white space allowed around it
JsonLoads(p) ==
  LET t == RStrip(LStrip(p))
  IN  IF t = <<Obj1>> THEN [ok |-> TRUE, value |-> [type |-> "object", timestamp |-> 1, T |-> 50]]
      ELSE IF t = <<Obj2>> THEN [ok |-> TRUE, value |-> [type |-> "object", timestamp |-> 2, T |-> 52]]
      ELSE IF /\ Len(t) >= 2
              /\ t[1] = Quote
              /\ t[Len(t)] = Quote
              /\ \A i \in 2..(Len(t) - 1) : t[i] \in StringChunks
           THEN [ok |-> TRUE, value |-> [type |-> "string", text |-> SubSeq(t, 2, Len(t) - 1)]]
      ELSE JsonError

\* one pass of the body of `for line in r.iter_lines()`
DecodeLine(l) ==
  IF ~IsDataLine(l) THEN [kind |-> "skip"]
  ELSE LET payload == Replace(l)
       IN  IF ~Utf8Ok(payload) THEN [kind |-> "raise"]
           ELSE IF JsonLoads(payload).ok
                THEN [kind |-> "yield", value |-> JsonLoads(payload).value]
                ELSE [kind |-> "skip"]

(* ------------------------------ window --------------------------------- *)
\* pd.concat([df, pd.DataFrame([sample])], ignore_index=True)
Concat(d, s) == Append(d, s)

\* mutant: df.iloc[:n], the oldest rows kept
ILocLast_Head(d, n) == IF Len(d) > n THEN SubSeq(d, 1, n) ELSE d

\* df.iloc[-n:], n >= 1
ILocLast(d, n) == IF Len(d) > n THEN SubSeq(d, Len(d) - n + 1, Len(d)) ELSE d

\* mutant: only the oldest row is dropped when the window is over its size
TrimDf_DropOne(d, n) == IF Len(d) > n THEN Tail(d) ELSE d

\* if len(df) > MAX_POINTS: df = df.iloc[-MAX_POINTS:]
TrimDf(d, n) == IF Len(d) > n THEN ILocLast(d, n) ELSE d

(* ------------------------------- state --------------------------------- *)
VARIABLES
  ip, port,        \* the sidebar text inputs, saved in st.session_state
  STREAM_URL,      \* the URL built from them
  MAX_POINTS,      \* the window-size slider
  data,            \* st.session_state.data, the sample window
  df, sample,      \* locals of the plotting loop
  line,            \* local of the generator stream_data
  pc,              \* position of the script run
  conn, connUrl,   \* the streaming request of this run and the URL it went to
  error,           \* what st.error has shown in this run
  shown,           \* the window drawn in the placeholder
  run, nlines,     \* runs so far; lines delivered so far in the session
  attempts,        \* requests.get calls of this run
  decoded, appends, trims, stores, renders, pauses,  \* steps of this run
  startData,       \* the window as this run found it
  arrived,         \* the samples this run has appended, in order
  emitted,         \* history: the samples stream_data has yielded in this run
  events           \* history: the JSON values of the well-formed data events
                   \* among the lines delivered in this run

cfgVars == <<ip, port, STREAM_URL, MAX_POINTS>>
loopVars == <<df, sample, shown>>
countVars == <<decoded, appends, trims, stores, renders, pauses>>
vars == <<ip, port, STREAM_URL, MAX_POINTS, data, df, sample, line, pc, conn, connUrl,
          error, shown, run, nlines, attempts, decoded, appends, trims, stores,
          renders, pauses, startData, arrived, emitted, events>>
histVars == <<emitted, events>>

NoSample == [type |-> "none"]
NoUrl == <<>>

Init ==
  /\ ip = default_ip
  /\ port = default_port
  /\ STREAM_URL = MkUrl(default_ip, default_port)
  /\ MAX_POINTS \in PointChoices
  /\ data = <<>>
  /\ df = <<>>
  /\ sample = NoSample
  /\ line = <<>>
  /\ pc = "connect"
  /\ conn = "none"
  /\ connUrl = NoUrl
  /\ error = "none"
  /\ shown = <<>>
  /\ run = 1
  /\ nlines = 0
  /\ attempts = 0
  /\ decoded = 0 /\ appends = 0 /\ trims = 0 /\ stores = 0 /\ renders = 0 /\ pauses = 0
  /\ startData = <<>>
  /\ arrived = <<>>
  /\ emitted = <<>>
  /\ events = <<>>

(* --------------------------- event format ------------------------------ *)
\* What the stream is meant to carry, used by the history variable events and
\* by the properties; stream_data does not compute it.
\* the text after the leading marker of a data line
AfterMarker(l) == Tail(l)

\* a line is a well-formed data event: the marker, then text that is valid JSON
WellFormedEvent(l) ==
  /\ Len(l) > 0
  /\ l[1] = Marker
  /\ Utf8Ok(AfterMarker(l))
  /\ JsonLoads(AfterMarker(l)).ok

\* the history of events after the line l has been delivered
EventsAfter(l) ==
  IF WellFormedEvent(l) THEN Append(events, JsonLoads(AfterMarker(l)).value) ELSE events

(* ------------------------------ actions -------------------------------- *)
\* requests.get(url, stream=True, timeout=10) returns a response
Connect ==
  /\ pc = "connect"
  /\ attempts' = attempts + 1
  /\ conn' = "open"
  /\ connUrl' = STREAM_URL
  /\ pc' = "read"
  /\ UNCHANGED <<cfgVars, data, loopVars, line, error, run, nlines, countVars,
                 startData, arrived, histVars>>

\* mutant: a failed requests.get is tried again
ConnectFail_Retry ==
  /\ pc = "connect"
  /\ attempts' = attempts + 1
  /\ conn' = "failed"
  /\ connUrl' = STREAM_URL
  /\ error' = "Stream error"
  /\ pc' = "connect"
  /\ UNCHANGED <<cfgVars, data, loopVars, line, run, nlines, countVars,
                 startData, arrived, histVars>>

\* requests.get raises: st.error, and the generator returns
ConnectFail ==
  /\ pc = "connect"
  /\ attempts' = attempts + 1
  /\ conn' = "failed"
  /\ connUrl' = STREAM_URL
  /\ error' = "Stream error"
  /\ pc' = "done"
  /\ UNCHANGED <<cfgVars, data, loopVars, line, run, nlines, countVars,
                 startData, arrived, histVars>>

\* r.iter_lines() delivers a line and the generator handles it
ReadLine ==
  /\ pc = "read"
  /\ nlines < MaxLines
  /\ \E l \in TransportLines :
       /\ line' = l
       /\ nlines' = nlines + 1
       /\ events' = EventsAfter(l)
       /\ LET out == DecodeLine(l)
          IN  \/ /\ out.kind = "skip"
                 /\ pc' = "read"
                 /\ UNCHANGED <<sample, decoded, conn, error, emitted>>
              \/ /\ out.kind = "yield"
                 /\ sample' = out.value
                 /\ emitted' = Append(emitted, out.value)
                 /\ decoded' = decoded + 1
                 /\ pc' = "append"
                 /\ UNCHANGED <<conn, error>>
              \/ /\ out.kind = "raise"
                 /\ error' = "Stream error"
                 /\ conn' = "closed"
                 /\ pc' = "done"
                 /\ UNCHANGED <<sample, decoded, emitted>>
  /\ UNCHANGED <<cfgVars, data, df, shown, connUrl, run, attempts, appends, trims,
                 stores, renders, pauses, startData, arrived>>

\* the server closes the stream: iter_lines is exhausted, the generator returns
ReadEnd ==
  /\ pc = "read"
  /\ conn' = "closed"
  /\ pc' = "done"
  /\ UNCHANGED <<cfgVars, data, loopVars, line, connUrl, error, run, nlines, attempts,
                 countVars, startData, arrived, histVars>>

\* mutant: the error is shown and the loop over the lines goes on
ReadFail_Continue ==
  /\ pc = "read"
  /\ error' = "Stream error"
  /\ pc' = "read"
  /\ UNCHANGED <<cfgVars, data, loopVars, line, conn, connUrl, run, nlines, attempts,
                 countVars, startData, arrived, histVars>>

\* iter_lines raises (reset, timeout): st.error, and the generator returns
ReadFail ==
  /\ pc = "read"
  /\ conn' = "closed"
  /\ error' = "Stream error"
  /\ pc' = "done"
  /\ UNCHANGED <<cfgVars, data, loopVars, line, connUrl, run, nlines, attempts,
                 countVars, startData, arrived, histVars>>

\* df = st.session_state.data; df = pd.concat([df, pd.DataFrame([sample])])
AppendSample ==
  /\ pc = "append"
  /\ df' = Concat(data, sample)
  /\ appends' = appends + 1
  /\ arrived' = Append(arrived, sample)
  /\ pc' = "trim"
  /\ UNCHANGED <<cfgVars, data, sample, shown, line, conn, connUrl, error, run, nlines,
                 attempts, decoded, trims, stores, renders, pauses, startData, histVars>>

\* if len(df) > MAX_POINTS: df = df.iloc[-MAX_POINTS:]
Trim ==
  /\ pc = "trim"
  /\ df' = TrimDf(df, MAX_POINTS)
  /\ trims' = trims + 1
  /\ pc' = "store"
  /\ UNCHANGED <<cfgVars, data, sample, shown, line, conn, connUrl, error, run, nlines,
                 attempts, decoded, appends, stores, renders, pauses, startData, arrived, histVars>>

\* mutant: the figure is not drawn, the loop goes straight to the sleep
Store_SkipRender ==
  /\ pc = "store"
  /\ data' = df
  /\ stores' = stores + 1
  /\ pc' = "sleep"
  /\ UNCHANGED <<cfgVars, loopVars, line, conn, connUrl, error, run, nlines,
                 attempts, decoded, appends, trims, renders, pauses, startData, arrived, histVars>>

\* st.session_state.data = df
Store ==
  /\ pc = "store"
  /\ data' = df
  /\ stores' = stores + 1
  /\ pc' = "render"
  /\ UNCHANGED <<cfgVars, loopVars, line, conn, connUrl, error, run, nlines,
                 attempts, decoded, appends, trims, renders, pauses, startData, arrived, histVars>>

\* the 3x3 figure of df replaces the placeholder's content
Render ==
  /\ pc = "render"
  /\ shown' = df
  /\ renders' = renders + 1
  /\ pc' = "sleep"
  /\ UNCHANGED <<cfgVars, data, df, sample, line, conn, connUrl, error, run, nlines,
                 attempts, decoded, appends, trims, stores, pauses, startData, arrived, histVars>>

\* time.sleep(REFRESH_INTERVAL), then the for loop resumes the generator
Sleep ==
  /\ pc = "sleep"
  /\ pauses' = pauses + 1
  /\ pc' = "read"
  /\ UNCHANGED <<cfgVars, data, loopVars, line, conn, connUrl, error, run, nlines,
                 attempts, decoded, appends, trims, stores, renders, startData, arrived, histVars>>

\* mutant: the window is emptied when the connection settings change
Rerun_ClearsWindow ==
  /\ run < MaxRuns
  /\ run' = run + 1
  /\ \E h \in Hosts, p \in Ports, n \in PointChoices :
       /\ ip' = h
       /\ port' = p
       /\ STREAM_URL' = MkUrl(h, p)
       /\ MAX_POINTS' = n
       /\ data' = IF <<h, p>> # <<ip, port>> THEN <<>> ELSE data
  /\ df' = <<>>
  /\ sample' = NoSample
  /\ line' = <<>>
  /\ shown' = <<>>
  /\ conn' = "none"
  /\ connUrl' = NoUrl
  /\ error' = "none"
  /\ pc' = "connect"
  /\ attempts' = 0
  /\ decoded' = 0 /\ appends' = 0 /\ trims' = 0 /\ stores' = 0 /\ renders' = 0 /\ pauses' = 0
  /\ startData' = data'
  /\ arrived' = <<>>
  /\ emitted' = <<>>
  /\ events' = <<>>
  /\ UNCHANGED nlines

\* a sidebar widget changes: Streamlit abandons the run and runs the script
\* again from the top, with st.session_state kept
Rerun ==
  /\ run < MaxRuns
  /\ run' = run + 1
  /\ \E h \in Hosts, p \in Ports, n \in PointChoices :
       /\ ip' = h
       /\ port' = p
       /\ STREAM_URL' = MkUrl(h, p)
       /\ MAX_POINTS' = n
  /\ df' = <<>>
  /\ sample' = NoSample
  /\ line' = <<>>
  /\ shown' = <<>>
  /\ conn' = "none"
  /\ connUrl' = NoUrl
  /\ error' = "none"
  /\ pc' = "connect"
  /\ attempts' = 0
  /\ decoded' = 0 /\ appends' = 0 /\ trims' = 0 /\ stores' = 0 /\ renders' = 0 /\ pauses' = 0
  /\ startData' = data
  /\ arrived' = <<>>
  /\ emitted' = <<>>
  /\ events' = <<>>
  /\ UNCHANGED <<data, nlines>>

RunStep ==
  \/ Connect \/ ConnectFail \/ ReadLine \/ ReadEnd \/ ReadFail
  \/ AppendSample \/ Trim \/ Store \/ Render \/ Sleep

Next ==
  \/ Connect
  \/ ConnectFail
  \/ ReadLine
  \/ ReadEnd
  \/ ReadFail
  \/ AppendSample
  \/ Trim
  \/ Store
  \/ Render
  \/ Sleep
  \/ Rerun

Spec == Init /\ [][Next]_vars

\* reading blocks for at most the request timeout and the sleep is finite, so a
\* run that is not abandoned always takes its next step
FairSpec == Init /\ [][Next]_vars /\ WF_vars(RunStep)

\* the state of the loop driver, read off the position of the run
LoopState ==
  IF pc = "done" THEN (IF error = "none" THEN "ENDED" ELSE "ERROR")
  ELSE IF decoded = 0 THEN "AWAITING_FIRST_SAMPLE"
  ELSE "STREAMING"


(* ------------------------------ claims --------------------------------- *)
\* the window has been written by this run
Stored == stores > 0

\* t holds the last n entries of s (all of s when s has no more than n), in order
IsLastOf(t, s, n) ==
  /\ Len(t) = (IF Len(s) > n THEN n ELSE Len(s))
  /\ \A i \in 1..Len(t) : t[i] = s[Len(s) - Len(t) + i]

\* C1: right after the trim step, and whenever this run has stored the window back
\* into the session state, the window holds at most MAX_POINTS samples, also in a
\* run that found a window longer than its MAX_POINTS.
C1_WindowBounded ==
  /\ pc = "store" => Len(df) <= MAX_POINTS
  /\ Stored => Len(data) <= MAX_POINTS

\* a run that found a window longer than its MAX_POINTS has stored the window
C1_Witness ==
  /\ run > 1
  /\ Len(startData) > MAX_POINTS
  /\ Stored
  /\ pc = "render"

\* C2: samples appended one at a time to a window that was empty leave the window
\* holding the last MAX_POINTS of them in arrival order (all of them when there are
\* no more than MAX_POINTS, the trim then removing nothing), duplicates kept.
C2_LastNKept ==
  startData = <<>> =>
    /\ pc \in {"render", "sleep", "read", "done", "append"} => IsLastOf(data, arrived, MAX_POINTS)
    /\ pc = "store" => IsLastOf(df, arrived, MAX_POINTS)
    /\ (pc = "store" /\ Len(arrived) <= MAX_POINTS) => df = arrived

\* three samples have arrived for a window of two, the last two of them equal
C2_Witness ==
  /\ startData = <<>>
  /\ MAX_POINTS = 2
  /\ Len(arrived) = 3
  /\ arrived[1] # arrived[2]
  /\ arrived[2] = arrived[3]
  /\ pc = "sleep"
  /\ data = <<arrived[2], arrived[3]>>

\* a step in which the transport delivers a line
LineDelivered == nlines' = nlines + 1

\* C3: at every moment of a run the sequence of Samples that stream_data has
\* emitted is exactly the sequence of the well-formed data events among the
\* lines delivered so far, in arrival order: one Sample per event, with its JSON
\* value, none dropped, duplicated or reordered, other lines adding nothing.
C3_EmittedIsEvents == emitted = events

\* C4: for a line that carries the marker and whose remainder is valid JSON, the
\* emitted Sample is the JSON value of the text that follows the leading marker.
C4_StripsLeadingMarker ==
  [][(LineDelivered /\ WellFormedEvent(line')) =>
       (pc' = "append" /\ sample' = JsonLoads(AfterMarker(line')).value)]_vars

\* C5: a data line whose payload is not valid JSON is skipped: no Sample, no
\* error shown, the loop not ended, the window unchanged, the next line awaited.
C5_MalformedSkipped ==
  [][(LineDelivered /\ Len(line') > 0 /\ line'[1] = Marker /\ ~WellFormedEvent(line')) =>
       (pc' = "read" /\ error' = error /\ decoded' = decoded /\ data' = data)]_vars

\* C6: a blank line or a line that does not start with the marker produces no
\* Sample and no append, trim, render or pause; the next line is awaited.
C6_NonDataIgnored ==
  [][(LineDelivered /\ (line' = <<>> \/ line'[1] # Marker)) =>
       /\ pc' = "read"
       /\ error' = error
       /\ UNCHANGED <<data, df, sample, shown, countVars, arrived, emitted>>]_vars

\* a line of valid JSON without the marker was delivered and the next is awaited
C6_Witness ==
  /\ line = <<Obj1>>
  /\ pc = "read"
  /\ nlines > 0
  /\ decoded = 0

\* C7: a run calls requests.get once; when the connection or the transport
\* fails the error is shown, the run is over in the ERROR state, no Sample is
\* emitted afterwards and the window keeps the samples stored before.
C7_FailureEndsRun ==
  /\ [](attempts <= 1)
  /\ []((conn = "failed" \/ error # "none") => (pc = "done" /\ error # "none" /\ attempts = 1))
  /\ [][(error = "none" /\ error' # "none") =>
          (pc' = "done" /\ data' = data /\ decoded' = decoded /\ run' = run)]_vars
  /\ [][(pc = "done" /\ run' = run) => UNCHANGED <<data, decoded, attempts, error, pc>>]_vars

\* the transport failed after samples had been stored
C7_Witness ==
  /\ pc = "done"
  /\ error # "none"
  /\ conn = "closed"
  /\ attempts = 1
  /\ Stored
  /\ Len(data) > 0
  /\ line = <<Marker, Space, Obj1>>

\* the steps of the loop body
InBody == pc \in {"append", "trim", "store", "render", "sleep"}

\* C8: for every decoded Sample the loop appends, trims, stores, draws and sleeps,
\* once each and in this order, before the next line is read; the figure drawn is
\* the trimmed window with the new Sample at its end.
C8_IterationOrder ==
  /\ [](/\ pc \in {"connect", "read", "done"} =>
             (appends = decoded /\ trims = decoded /\ stores = decoded
                /\ renders = decoded /\ pauses = decoded)
        /\ pc = "append" =>
             (appends + 1 = decoded /\ trims = appends /\ stores = appends
                /\ renders = appends /\ pauses = appends)
        /\ pc = "trim" =>
             (appends = decoded /\ trims + 1 = decoded /\ stores = trims
                /\ renders = trims /\ pauses = trims)
        /\ pc = "store" =>
             (appends = decoded /\ trims = decoded /\ stores + 1 = decoded
                /\ renders = stores /\ pauses = stores)
        /\ pc = "render" =>
             (appends = decoded /\ trims = decoded /\ stores = decoded
                /\ renders + 1 = decoded /\ pauses = renders)
        /\ pc = "sleep" =>
             (appends = decoded /\ trims = decoded /\ stores = decoded
                /\ renders = decoded /\ pauses + 1 = decoded
                /\ shown = data /\ Len(shown) <= MAX_POINTS
                /\ Len(shown) > 0 /\ shown[Len(shown)] = sample))
  /\ [][(InBody /\ run' = run) => (nlines' = nlines /\ line' = line)]_vars

\* two samples have gone through the whole body and the third line is awaited
C8_Witness ==
  /\ pc = "read"
  /\ decoded = 2
  /\ renders = 2
  /\ pauses = 2
  /\ Len(shown) = 2

\* C9: after a change of host or port the next run requests the URL built from
\* the new values; the change leaves the window as it was, and the first Sample
\* of the new stream is appended after the samples the run found.
C9_ReconfigKeepsWindow ==
  /\ [](/\ STREAM_URL = <<"http://", ip, ":", port, "/stream">>
        /\ conn # "none" => connUrl = STREAM_URL
        /\ (pc = "trim" /\ decoded = 1) => df = startData \o <<sample>>)
  /\ [][run' # run =>
          (data' = data /\ startData' = data /\ pc' = "connect" /\ conn' = "none")]_vars

\* a run against a new URL has stored its first Sample behind one of the old stream
C9_Witness ==
  /\ run > 1
  /\ ip # default_ip
  /\ port # default_port
  /\ conn = "open"
  /\ connUrl = <<"http://", ip, ":", port, "/stream">>
  /\ Len(startData) = 1
  /\ decoded = 1
  /\ pc = "render"
  /\ data = startData \o <<sample>>

Terminal == LoopState \in {"ENDED", "ERROR"}

\* C10: a run starts in AWAITING_FIRST_SAMPLE, is STREAMING from its first decoded
\* Sample on, goes to ENDED when the stream is closed and to ERROR when an error is
\* reported; ENDED and ERROR are terminal for the run, and the run that no re-run
\* abandons (the last one of the session) reaches one of them and stays there.
C10_LoopStates ==
  /\ [](pc = "connect" => LoopState = "AWAITING_FIRST_SAMPLE")
  /\ [](error # "none" => LoopState = "ERROR")
  /\ [][run' = run =>
          /\ (LoopState = "AWAITING_FIRST_SAMPLE" /\ LoopState' = "STREAMING") =>
                (decoded = 0 /\ decoded' = 1 /\ pc' = "append")
          /\ (LoopState = "AWAITING_FIRST_SAMPLE" /\ decoded' = 1) => LoopState' = "STREAMING"
          /\ (LoopState = "STREAMING") => LoopState' # "AWAITING_FIRST_SAMPLE"
          /\ (~Terminal /\ LoopState' = "ENDED") => (conn = "open" /\ conn' = "closed" /\ error' = "none")
          /\ (~Terminal /\ LoopState' = "ERROR") => (error = "none" /\ error' # "none")
          /\ Terminal => UNCHANGED vars]_vars
  /\ <>[]Terminal

\* a run has streamed two samples and ended with the stream closed by the server
C10_Witness ==
  /\ LoopState = "ENDED"
  /\ decoded = 2
  /\ pauses = 2
  /\ conn = "closed"

====
